---- MODULE Spec2Model ----
(***************************************************************************)
(* Model of scripts/evaluate_model_sam.py: parse_args, main and            *)
(* get_predictor_and_zoomin_params.                                        *)
(*                                                                         *)
(* Strings are sequences of one-character strings.  Floating point         *)
(* thresholds are integers in hundredths (0.8 is 80, 1.01 is 101).         *)
(* An optional value (Python None or a value) is a sequence of length 0    *)
(* or 1.  Every call into isegm / evaluate_model_ritm is an opaque step    *)
(* that appends the call and its arguments to log, or raises.              *)
(***************************************************************************)
EXTENDS Integers, Sequences, FiniteSets, TLC

VARIABLES
    cli,               \* the command line, as given by the operator
    world,             \* what the filesystem resolves the checkpoints to
    pc,                \* position in parse_args / main
    args,              \* the argparse namespace (<<>> before parse_args returns)
    logs_dir_created,  \* logs_path.mkdir has run
    checkpoints_list,  \* main's local
    single_model_eval, \* main's local
    print_header,      \* main's local
    datasets,          \* args.datasets.split(','), the outer loop's iterable
    di,                \* index of the current dataset (0 before the first)
    ci,                \* index of the current checkpoint (0 before the first)
    model,             \* main's local (<<>> before the first ISModelSAM)
    predictor_params,  \* main's local, a dict as a set of <<key, value>>
    zoomin_params,     \* main's local, an optional value
    row_name,          \* main's local
    log,               \* the calls made into the external library, in order
    failed             \* <<>>, or <<[pc, d, c]>>: where an exception was raised

vars == <<cli, world, pc, args, logs_dir_created, checkpoints_list,
          single_model_eval, print_header, datasets, di, ci, model,
          predictor_params, zoomin_params, row_name, log, failed>>

(***************************************************************************)
(* Bounds of the model.                                                    *)
(***************************************************************************)
MaxCheckpoints == 2
MaxDatasets == 2

(***************************************************************************)
(* Program constants.                                                      *)
(***************************************************************************)
DefaultTargetIou == 90
DefaultNClicks == 20
DefaultThresh == 49
AnalysisTargetIou == 101
MinTargetIou == 80
ClicksLimitSentinel == -1

None == <<>>
Some(v) == <<v>>

(***************************************************************************)
(* str.split(',') : the pieces between the commas, empty pieces kept.      *)
(***************************************************************************)
RECURSIVE SplitFrom(_, _, _)
SplitFrom(s, i, cur) ==
    IF i > Len(s) THEN <<cur>>
    ELSE IF s[i] = "," THEN <<cur>> \o SplitFrom(s, i + 1, <<>>)
    ELSE SplitFrom(s, i + 1, Append(cur, s[i]))

Split(s) == SplitFrom(s, 1, <<>>)

(***************************************************************************)
(* pathlib: Path.name is the part after the last "/", Path.stem is the     *)
(* name without its last suffix (a dot that is neither first nor last).    *)
(***************************************************************************)
LastIndexOf(s, ch) ==
    LET hits == {i \in 1..Len(s) : s[i] = ch}
    IN  IF hits = {} THEN 0 ELSE CHOOSE i \in hits : \A j \in hits : j <= i

PathName(p) == SubSeq(p, LastIndexOf(p, "/") + 1, Len(p))

Stem(p) ==
    LET name == PathName(p)
        i == LastIndexOf(name, ".")
    IN  IF 1 < i /\ i < Len(name) THEN SubSeq(name, 1, i - 1) ELSE name

Max(a, b) == IF a >= b THEN a ELSE b

(***************************************************************************)
(* The inputs: command lines and checkpoint directories.                   *)
(***************************************************************************)
Repeat(ch, n) == [j \in 1..n |-> ch]

DatasetName(i) == Repeat("D", i)

RECURSIVE JoinNames(_)
JoinNames(n) ==
    IF n = 1 THEN DatasetName(1)
    ELSE JoinNames(n - 1) \o <<",">> \o DatasetName(n)

\* "D", "D,DD", ... and the two odd lists: the empty string, a trailing comma
DatasetStrings ==
    {JoinNames(n) : n \in 1..MaxDatasets} \cup {<<>>, <<"D", ",">>}

\* exps/m.pth, exps/mm.pth, ... as the resolver lists them
CheckpointPath(i) == <<"e", "/">> \o Repeat("m", i) \o <<".", "p">>

CheckpointLists ==
    {[i \in 1..n |-> CheckpointPath(i)] : n \in 0..MaxCheckpoints}

GpuLists == {None, Some(<<"1", ",", "0">>)}
TargetIous == {None, Some(50), Some(95), Some(102)}
MinNClicks == {0, 1, 2}
NClicks == {3, DefaultNClicks}
ClicksLimits == {None, Some(ClicksLimitSentinel), Some(3)}

NoBRS == <<"N", "o", "B", "R", "S">>

CommandLines ==
    [mode : {NoBRS}, cpu : BOOLEAN, gpus : GpuLists,
     target_iou : TargetIous, iou_analysis : BOOLEAN, print_ious : BOOLEAN,
     min_n_clicks : MinNClicks, n_clicks : NClicks,
     clicks_limit : ClicksLimits, save_ious : BOOLEAN,
     datasets : DatasetStrings, thresh : {DefaultThresh}, logs_path : {<<>>}]

(***************************************************************************)
(* parse_args                                                              *)
(***************************************************************************)
OrDefault(opt, default) == IF opt = None THEN default ELSE opt[1]

\* the two mutually exclusive groups of optional flags
GroupConflict(c) ==
    \/ c.cpu /\ c.gpus # None
    \/ c.iou_analysis /\ c.target_iou # None

Device(cpu, gpus) ==
    IF cpu THEN <<"c", "p", "u">>
    ELSE <<"c", "u", "d", "a", ":">> \o Split(gpus)[1]

\* mutant: the threshold is not clamped to the minimum
EffectiveTargetIouNoClamp(iou_analysis, print_ious, min_n_clicks, target_iou) ==
    IF (iou_analysis \/ print_ious) /\ min_n_clicks <= 1
    THEN AnalysisTargetIou
    ELSE target_iou

\* mutant: min_n_clicks < 1 in place of min_n_clicks <= 1
EffectiveTargetIouStrict(iou_analysis, print_ious, min_n_clicks, target_iou) ==
    IF (iou_analysis \/ print_ious) /\ min_n_clicks < 1
    THEN AnalysisTargetIou
    ELSE Max(MinTargetIou, target_iou)

EffectiveTargetIou(iou_analysis, print_ious, min_n_clicks, target_iou) ==
    IF (iou_analysis \/ print_ious) /\ min_n_clicks <= 1
    THEN AnalysisTargetIou
    ELSE Max(MinTargetIou, target_iou)

ExpsPath == <<"e">>

LogsPath(logs_path) ==
    IF logs_path = <<>>
    THEN ExpsPath \o <<"/">> \o <<"evaluation_logs">>
    ELSE logs_path

Namespace(c) ==
    [mode |-> c.mode, cpu |-> c.cpu, gpus |-> OrDefault(c.gpus, <<"0">>),
     device |-> Device(c.cpu, OrDefault(c.gpus, <<"0">>)),
     target_iou |-> EffectiveTargetIou(c.iou_analysis, c.print_ious,
                        c.min_n_clicks,
                        OrDefault(c.target_iou, DefaultTargetIou)),
     iou_analysis |-> c.iou_analysis, print_ious |-> c.print_ious,
     min_n_clicks |-> c.min_n_clicks, n_clicks |-> c.n_clicks,
     clicks_limit |-> c.clicks_limit, save_ious |-> c.save_ious,
     datasets |-> c.datasets, thresh |-> c.thresh,
     logs_path |-> LogsPath(c.logs_path)]

Init ==
    /\ cli \in CommandLines
    /\ world \in [checkpoints : CheckpointLists]
    /\ pc = "parse_args"
    /\ args = <<>>
    /\ logs_dir_created = FALSE
    /\ checkpoints_list = <<>>
    /\ single_model_eval = FALSE
    /\ print_header = FALSE
    /\ datasets = <<>>
    /\ di = 0
    /\ ci = 0
    /\ model = <<>>
    /\ predictor_params = {}
    /\ zoomin_params = None
    /\ row_name = <<>>
    /\ log = <<>>
    /\ failed = None

locals == <<checkpoints_list, single_model_eval, print_header, datasets, di,
            ci, model, predictor_params, zoomin_params, row_name>>

ParseArgs ==
    /\ pc = "parse_args"
    /\ IF GroupConflict(cli)
       THEN /\ pc' = "parse_error"
            /\ UNCHANGED args
       ELSE /\ args' = Namespace(cli)
            /\ pc' = "resolve"
    /\ UNCHANGED <<cli, world, logs_dir_created, locals, log, failed>>

(***************************************************************************)
(* get_predictor_and_zoomin_params: the dict it returns, and what it       *)
(* leaves in args.clicks_limit.                                            *)
(***************************************************************************)
\* mutant: the sentinel is passed on as it is
ClicksLimitAfterNoSubst(a) == a.clicks_limit

ClicksLimitAfter(a) ==
    IF a.clicks_limit # None /\ a.clicks_limit[1] = ClicksLimitSentinel
    THEN Some(a.n_clicks)
    ELSE a.clicks_limit

PredictorParams(a) ==
    IF a.clicks_limit # None
    THEN {<<"net_clicks_limit", ClicksLimitAfter(a)[1]>>}
    ELSE {}

ZoomInParams(a) == None

(***************************************************************************)
(* main                                                                    *)
(***************************************************************************)
Call(op, a) == [op |-> op, d |-> di, c |-> ci, a |-> a]

\* get_checkpoints_list_and_logs_path, logs_path.mkdir
ResolveCheckpoints ==
    /\ pc = "resolve"
    /\ checkpoints_list' = world.checkpoints
    /\ logs_dir_created' = TRUE
    /\ pc' = "check_single"
    /\ UNCHANGED <<cli, world, args, single_model_eval, print_header,
                   datasets, di, ci, model, predictor_params, zoomin_params,
                   row_name, log, failed>>

\* mutant: the conditional expression with its branches exchanged
AssertHoldsMisgrouped(single, iou_analysis) ==
    IF single THEN ~iou_analysis ELSE TRUE

\* assert not args.iou_analysis if not single_model_eval else True
AssertHolds(single, iou_analysis) ==
    IF ~single THEN ~iou_analysis ELSE TRUE

CheckSingle ==
    /\ pc = "check_single"
    /\ single_model_eval' = (Len(checkpoints_list) = 1)
    /\ IF AssertHolds(single_model_eval', args.iou_analysis)
       THEN /\ print_header' = single_model_eval'
            /\ datasets' = Split(args.datasets)
            /\ pc' = "for_dataset"
       ELSE /\ pc' = "assert_failed"
            /\ UNCHANGED <<print_header, datasets>>
    /\ UNCHANGED <<cli, world, args, logs_dir_created, checkpoints_list, di,
                   ci, model, predictor_params, zoomin_params, row_name, log,
                   failed>>

\* for dataset_name in ...: dataset = utils.get_dataset(dataset_name, cfg, args)
ForDataset ==
    /\ pc = "for_dataset"
    /\ IF di < Len(datasets)
       THEN /\ di' = di + 1
            /\ ci' = 0
            /\ log' = Append(log, [op |-> "get_dataset", d |-> di + 1, c |-> 0,
                                   a |-> [dataset_name |-> datasets[di + 1]]])
            /\ pc' = "for_checkpoint"
       ELSE /\ pc' = "done"
            /\ UNCHANGED <<di, ci, log>>
    /\ UNCHANGED <<cli, world, args, logs_dir_created, checkpoints_list,
                   single_model_eval, print_header, datasets, model,
                   predictor_params, zoomin_params, row_name, failed>>

\* for checkpoint_path in checkpoints_list: model = ISModelSAM(device='cuda', ...)
ModelDevice == <<"c", "u", "d", "a">>

ForCheckpoint ==
    /\ pc = "for_checkpoint"
    /\ IF ci < Len(checkpoints_list)
       THEN /\ ci' = ci + 1
            /\ model' = [device |-> ModelDevice,
                         model_path |-> checkpoints_list[ci + 1]]
            /\ log' = Append(log, [op |-> "ISModelSAM", d |-> di, c |-> ci + 1,
                                   a |-> model'])
            /\ pc' = "params"
       ELSE /\ pc' = "for_dataset"
            /\ UNCHANGED <<ci, model, log>>
    /\ UNCHANGED <<cli, world, args, logs_dir_created, checkpoints_list,
                   single_model_eval, print_header, datasets, di,
                   predictor_params, zoomin_params, row_name, failed>>

\* predictor_params, zoomin_params = get_predictor_and_zoomin_params(args, ...)
GetPredictorAndZoominParams ==
    /\ pc = "params"
    /\ predictor_params' = PredictorParams(args)
    /\ zoomin_params' = ZoomInParams(args)
    /\ args' = [args EXCEPT !.clicks_limit = ClicksLimitAfter(args)]
    /\ pc' = "get_predictor"
    /\ UNCHANGED <<cli, world, logs_dir_created, checkpoints_list,
                   single_model_eval, print_header, datasets, di, ci, model,
                   row_name, log, failed>>

\* predictor = get_predictor(model, args.mode, args.device, ...)
GetPredictor ==
    /\ pc = "get_predictor"
    /\ log' = Append(log, Call("get_predictor",
                  [model |-> model, mode |-> args.mode,
                   device |-> args.device, prob_thresh |-> args.thresh,
                   predictor_params |-> predictor_params,
                   zoom_in_params |-> zoomin_params, with_flip |-> FALSE]))
    /\ pc' = "evaluate"
    /\ UNCHANGED <<cli, world, args, logs_dir_created, locals, failed>>

\* dataset_results = evaluate_dataset(dataset, predictor, ...)
EvaluateDataset ==
    /\ pc = "evaluate"
    /\ log' = Append(log, Call("evaluate_dataset",
                  [dataset_name |-> datasets[di],
                   model_path |-> model.model_path,
                   pred_thr |-> args.thresh, max_iou_thr |-> args.target_iou,
                   min_clicks |-> args.min_n_clicks,
                   max_clicks |-> args.n_clicks]))
    /\ pc' = "iou_analysis"
    /\ UNCHANGED <<cli, world, args, logs_dir_created, locals, failed>>

\* mutant: checkpoint_path.name in place of checkpoint_path.stem
RowNameWithSuffix(single, mode, checkpoint_path) ==
    IF single THEN mode ELSE PathName(checkpoint_path)

\* row_name = args.mode if single_model_eval else checkpoint_path.stem
RowName(single, mode, checkpoint_path) ==
    IF single THEN mode ELSE Stem(checkpoint_path)

\* mutant: the payload is written without looking at args.iou_analysis
SaveIouAnalysisDataAlways ==
    /\ pc = "iou_analysis"
    /\ row_name' = RowName(single_model_eval, args.mode, checkpoints_list[ci])
    /\ log' = Append(log, Call("save_iou_analysis_data",
                  [dataset_name |-> datasets[di]]))
    /\ pc' = "save_results"
    /\ UNCHANGED <<cli, world, args, logs_dir_created, checkpoints_list,
                   single_model_eval, print_header, datasets, di, ci, model,
                   predictor_params, zoomin_params, failed>>

\* row_name = ...; if args.iou_analysis: save_iou_analysis_data(...)
SaveIouAnalysisData ==
    /\ pc = "iou_analysis"
    /\ row_name' = RowName(single_model_eval, args.mode, checkpoints_list[ci])
    /\ IF args.iou_analysis
       THEN log' = Append(log, Call("save_iou_analysis_data",
                        [dataset_name |-> datasets[di]]))
       ELSE UNCHANGED log
    /\ pc' = "save_results"
    /\ UNCHANGED <<cli, world, args, logs_dir_created, checkpoints_list,
                   single_model_eval, print_header, datasets, di, ci, model,
                   predictor_params, zoomin_params, failed>>

\* mutant: print_header is not reset after the row
SaveResultsKeepHeader ==
    /\ pc = "save_results"
    /\ log' = Append(log, Call("save_results",
                  [row_name |-> row_name, dataset_name |-> datasets[di],
                   save_ious |-> (single_model_eval /\ args.save_ious),
                   single_model_eval |-> single_model_eval,
                   print_header |-> print_header]))
    /\ pc' = "for_checkpoint"
    /\ UNCHANGED <<cli, world, args, logs_dir_created, checkpoints_list,
                   single_model_eval, print_header, datasets, di, ci, model,
                   predictor_params, zoomin_params, row_name, failed>>

\* save_results(...); print_header = False
SaveResults ==
    /\ pc = "save_results"
    /\ log' = Append(log, Call("save_results",
                  [row_name |-> row_name, dataset_name |-> datasets[di],
                   save_ious |-> (single_model_eval /\ args.save_ious),
                   single_model_eval |-> single_model_eval,
                   print_header |-> print_header]))
    /\ print_header' = FALSE
    /\ pc' = "for_checkpoint"
    /\ UNCHANGED <<cli, world, args, logs_dir_created, checkpoints_list,
                   single_model_eval, datasets, di, ci, model,
                   predictor_params, zoomin_params, row_name, failed>>

(***************************************************************************)
(* An exception raised by an external call.  main has no try/except, so    *)
(* it leaves main and ends the process.  The call that raises has had no   *)
(* effect.                                                                 *)
(***************************************************************************)
CanRaise ==
    \/ pc \in {"parse_args", "resolve", "get_predictor", "evaluate",
               "save_results"}
    \/ pc = "for_dataset" /\ di < Len(datasets)
    \/ pc = "for_checkpoint" /\ ci < Len(checkpoints_list)
    \/ pc = "iou_analysis" /\ args.iou_analysis

\* the (dataset, checkpoint) iteration the statement at pc belongs to
Iteration ==
    IF pc = "for_dataset" THEN [d |-> di + 1, c |-> 0]
    ELSE IF pc = "for_checkpoint" THEN [d |-> di, c |-> ci + 1]
    ELSE [d |-> di, c |-> ci]

\* mutant: an exception inside an iteration is swallowed and the loop goes on
RaiseAndContinue ==
    /\ CanRaise
    /\ failed' = Some([pc |-> pc, d |-> Iteration.d, c |-> Iteration.c])
    /\ pc' = IF pc \in {"get_predictor", "evaluate", "iou_analysis",
                        "save_results"}
             THEN "for_checkpoint" ELSE "failed"
    /\ UNCHANGED <<cli, world, args, logs_dir_created, locals, log>>

Raise ==
    /\ CanRaise
    /\ failed' = Some([pc |-> pc, d |-> Iteration.d, c |-> Iteration.c])
    /\ pc' = "failed"
    /\ UNCHANGED <<cli, world, args, logs_dir_created, locals, log>>

Next ==
    \/ ParseArgs
    \/ ResolveCheckpoints
    \/ CheckSingle
    \/ ForDataset
    \/ ForCheckpoint
    \/ GetPredictorAndZoominParams
    \/ GetPredictor
    \/ EvaluateDataset
    \/ SaveIouAnalysisData
    \/ SaveResults
    \/ Raise

Spec == Init /\ [][Next]_vars

(***************************************************************************)
(* Properties                                                              *)
(***************************************************************************)
Parsed == args # <<>>

Calls(op) == SelectSeq(log, LAMBDA e : e.op = op)

Evaluations == Calls("evaluate_dataset")

Rows == Calls("save_results")

AllOf(seq, P(_)) == \A i \in 1..Len(seq) : P(seq[i])

GivenBelowMin == cli.target_iou # None /\ cli.target_iou[1] < MinTargetIou

AnalysisFromFirstClick ==
    (cli.iou_analysis \/ cli.print_ious) /\ cli.min_n_clicks <= 1

TargetIouIs(t) ==
    /\ args.target_iou = t
    /\ AllOf(Evaluations, LAMBDA e : e.a.max_iou_thr = t)

\* C1, as claimed: a --target-iou below 0.8 always gives an effective target
\* IoU of exactly 0.8, in args.target_iou and in every evaluate_dataset call,
\* whatever the other flags are.
C1_ClampForEveryFlagCombination ==
    (Parsed /\ GivenBelowMin) => TargetIouIs(MinTargetIou)

\* C1, amended: a --target-iou below 0.8 gives an effective target IoU of
\* exactly 0.8 unless --print-ious is set with --min-n-clicks <= 1, and then
\* it is 1.01.
C1_ClampUnlessPrintIous ==
    (Parsed /\ GivenBelowMin) =>
        /\ (~(cli.print_ious /\ cli.min_n_clicks <= 1))
               => TargetIouIs(MinTargetIou)
        /\ (cli.print_ious /\ cli.min_n_clicks <= 1)
               => TargetIouIs(AnalysisTargetIou)

C1_Witness ==
    /\ GivenBelowMin
    /\ cli.print_ious
    /\ cli.min_n_clicks > 1
    /\ Len(Evaluations) >= 2
    /\ Evaluations[2].a.max_iou_thr = MinTargetIou

ExpectedPredictorParams ==
    IF cli.clicks_limit = None THEN {}
    ELSE IF cli.clicks_limit[1] = -1 THEN {<<"net_clicks_limit", cli.n_clicks>>}
    ELSE {<<"net_clicks_limit", cli.clicks_limit[1]>>}

C3_SameParamsEveryIteration ==
    AllOf(Calls("get_predictor"),
          LAMBDA e : e.a.predictor_params = ExpectedPredictorParams)

C3_Witness ==
    /\ cli.clicks_limit = Some(-1)
    /\ Len(Calls("get_predictor")) >= 3
    /\ Calls("get_predictor")[3].a.predictor_params
           = {<<"net_clicks_limit", cli.n_clicks>>}

\* C4: with --iou-analysis and a checkpoint list that does not hold exactly
\* one checkpoint, main stops at its assertion: it never enters the dataset
\* loop and makes no call (no dataset, model, predictor, evaluation, payload
\* or results row).
LoopPcs ==
    {"for_dataset", "for_checkpoint", "params", "get_predictor", "evaluate",
     "iou_analysis", "save_results", "done"}

C4_AssertionBeforeLoop ==
    (cli.iou_analysis /\ Len(world.checkpoints) # 1) =>
        /\ log = <<>>
        /\ pc \notin LoopPcs
        /\ datasets = <<>>
        /\ failed = None => pc \in {"parse_args", "parse_error", "resolve",
                                    "check_single", "assert_failed"}

C4_Witness ==
    /\ pc = "assert_failed"
    /\ cli.iou_analysis
    /\ Len(checkpoints_list) > 1
    /\ log = <<>>

\* C5, as claimed: once parse_args has returned, no field of args changes.
C5_ArgsReadOnly == [][Parsed => args' = args]_vars

\* A bare "cuda" names the current CUDA device, which is cuda:0.
PlacedOn(device) ==
    IF device = <<"c", "u", "d", "a">> THEN device \o <<":", "0">> ELSE device

SelectedDevice ==
    IF cli.cpu THEN <<"c", "p", "u">>
    ELSE IF cli.gpus = None THEN <<"c", "u", "d", "a", ":", "0">>
    ELSE <<"c", "u", "d", "a", ":">> \o Split(cli.gpus[1])[1]

\* C6, as claimed: every model and every predictor of a run is placed on the
\* device selected at parse time (cpu with --cpu, else cuda:<first of --gpus>),
\* the same for the model and the predictor and in every iteration.
C6_OneDevice ==
    /\ AllOf(Calls("ISModelSAM"),
             LAMBDA e : PlacedOn(e.a.device) = SelectedDevice)
    /\ AllOf(Calls("get_predictor"),
             LAMBDA e : /\ PlacedOn(e.a.device) = SelectedDevice
                        /\ PlacedOn(e.a.model.device) = PlacedOn(e.a.device))

\* C7: over a whole run save_results gets print_header true at most once, and
\* only in the very first row of a run over exactly one checkpoint; every
\* later row and every row of a run over several checkpoints gets false.
\* save_ious is true only with exactly one checkpoint and --save-ious.
C7_HeaderOnceAndSaveIous ==
    /\ Cardinality({i \in 1..Len(Rows) : Rows[i].a.print_header}) <= 1
    /\ \A i \in 1..Len(Rows) :
           /\ Rows[i].a.print_header
                  => (i = 1 /\ Len(world.checkpoints) = 1)
           /\ (i > 1 \/ Len(world.checkpoints) # 1)
                  => ~Rows[i].a.print_header
           /\ Rows[i].a.save_ious
                  => (Len(world.checkpoints) = 1 /\ cli.save_ious)

C7_Witness ==
    /\ Len(world.checkpoints) = 1
    /\ cli.save_ious
    /\ Len(Rows) >= 2
    /\ Rows[1].a.print_header
    /\ ~Rows[2].a.print_header
    /\ Rows[2].d = 2
    /\ Rows[2].a.save_ious

\* C8: a results row is named by the mode when the checkpoint list holds
\* exactly one checkpoint, and otherwise by the stem of the checkpoint of
\* its iteration (exps/mm.pth gives mm), for every dataset.
C8_RowName ==
    AllOf(Rows, LAMBDA r :
        /\ Len(world.checkpoints) = 1 => r.a.row_name = cli.mode
        /\ Len(world.checkpoints) # 1 => r.a.row_name = Repeat("m", r.c))

C8_Witness ==
    /\ Len(world.checkpoints) > 1
    /\ Len(Rows) >= 4
    /\ Rows[4].d = 2
    /\ Rows[4].c = 2
    /\ Rows[4].a.row_name = <<"m", "m">>

\* C9: the evaluations, payloads and rows of a run come in dataset-major
\* order, one group per (dataset, checkpoint) pair: the evaluation, then the
\* IoU-analysis payload exactly when --iou-analysis is set, then the row.
\* A run that completes has one group, hence one row, per pair.
Persisted ==
    SelectSeq(log, LAMBDA e : e.op \in {"evaluate_dataset",
                                        "save_iou_analysis_data",
                                        "save_results"})

GroupSize == IF cli.iou_analysis THEN 3 ELSE 2

NumDatasets == Len(Split(cli.datasets))

NumCheckpoints == Len(world.checkpoints)

C9_DatasetMajorOrder ==
    /\ \A j \in 1..Len(Persisted) :
           LET k == (j - 1) \div GroupSize
               pos == ((j - 1) % GroupSize) + 1
               d == (k \div NumCheckpoints) + 1
               c == (k % NumCheckpoints) + 1
               e == Persisted[j]
           IN  /\ e.d = d
               /\ e.c = c
               /\ d <= NumDatasets
               /\ e.a.dataset_name = Split(cli.datasets)[d]
               /\ pos = 1 => /\ e.op = "evaluate_dataset"
                             /\ e.a.model_path = world.checkpoints[c]
               /\ (pos = 2 /\ cli.iou_analysis)
                      => e.op = "save_iou_analysis_data"
               /\ pos = GroupSize => e.op = "save_results"
    /\ pc = "done" =>
           /\ Len(Persisted) = GroupSize * NumDatasets * NumCheckpoints
           /\ Len(Rows) = NumDatasets * NumCheckpoints
           /\ Len(Evaluations) = NumDatasets * NumCheckpoints

C9_Witness ==
    /\ pc = "done"
    /\ NumDatasets >= 2
    /\ NumCheckpoints >= 2
    /\ Len(Rows) = NumDatasets * NumCheckpoints

\* C10: an exception in any step ends the run: after it no call is made and
\* nothing changes; the calls logged before it stay; and the iteration that
\* raised has written no results row.
IsPrefix(s, t) == Len(s) <= Len(t) /\ SubSeq(t, 1, Len(s)) = s

C10_FailureAborts ==
    [][/\ failed # None => (log' = log /\ failed' = failed /\ pc' = pc)
       /\ IsPrefix(log, log')
       /\ failed' # None =>
              /\ pc' = "failed"
              /\ \A i \in 1..Len(log') :
                     log'[i].op = "save_results" =>
                         ~(log'[i].d = failed'[1].d /\ log'[i].c = failed'[1].c)
      ]_vars

C10_Witness ==
    /\ pc = "failed"
    /\ failed # None
    /\ failed[1].pc = "evaluate"
    /\ failed[1].d = 2
    /\ Len(Rows) >= 2

====
